---- MODULE Spec2Model ----
(***************************************************************************)
(* A model of minmax/minmax.py: the MinMaxTree registry and roster, the    *)
(* Node caches and the negamax update, and the Transition objects.         *)
(*                                                                         *)
(* Objects are handles: node n is the n-th Node constructed, transition t  *)
(* the t-th Transition constructed. A Python dict is a function whose      *)
(* DOMAIN is the key set; an optional value is <<>> (None) or <<v>>.       *)
(***************************************************************************)
EXTENDS Integers, Sequences, FiniteSets, TLC

\* ------------------------------------------------------------ bounds
MaxNodes == 3
MaxId == 1
MaxPlayers == 2
MaxVal == 1
MaxMoves == 2
MaxTrans == 3
MaxRosterNodes == 2

\* ------------------------------------------------------------ values
NoneId == -1
NoNode == 0
None == <<>>
Some(v) == <<v>>
IsNone(o) == o = <<>>
Val(o) == o[1]

Ids == 0..MaxId
Keys == Ids \cup {NoneId}
PlayerIds == 1..MaxPlayers
LeafVals == (0 - MaxVal)..MaxVal
NodeIds == 1..MaxNodes

\* class PlayerType(Enum)
PlayerType == {"USER", "AI"}

\* A roster: a dict from player identifiers to PlayerType.
Rosters == UNION {[S -> PlayerType] : S \in SUBSET PlayerIds}

\* dict helpers
EmptyDict == <<>>
DictSet(d, k, v) == [x \in DOMAIN d \cup {k} |-> IF x = k THEN v ELSE d[x]]
DictPop(d, k) == [x \in DOMAIN d \ {k} |-> d[x]]
Len0(d) == Cardinality(DOMAIN d)

VARIABLES
    players,      \* MinMaxTree.__players: the roster
    nodes,        \* MinMaxTree._nodes: the registry, key -> node
    id,           \* Node.__id, per node
    expanded,     \* Node._expanded, per node
    terminal,     \* Node.terminal (the subclass's predicate), per node
    values,       \* Node._values, per node: player -> optional number
    best_moves,   \* Node.__best_moves, per node: player -> optional transition
    transitions,  \* Node.transitions, per node: the list of transitions
    trans,        \* the Transition objects constructed so far
    done,         \* the caller's bottom-up pass: the nodes updated in it
    caller,       \* the caller's own dict objects: the roster it passed in and
                  \* the registry snapshot it was handed
    last          \* the last call made and how it ended

vars == <<players, nodes, id, expanded, terminal, values, best_moves,
          transitions, trans, done, caller, last>>

Created == DOMAIN id

Call(op, n, arg, old, held, err) ==
    [op |-> op, node |-> n, arg |-> arg, old |-> old, held |-> held, err |-> err]

\* ------------------------------------------------------------ MinMaxTree
\* players.copy() in MinMaxTree.__init__ and in the players setter: the dict the
\* tree keeps, and whether it is the very object the caller holds.
players_copy_shared(r) == [dict |-> r, shared |-> TRUE]

players_copy(r) == [dict |-> r, shared |-> FALSE]

\* self._nodes.copy() in the nodes property: the dict handed to the caller, and
\* whether it is the registry object itself.
nodes_copy_shared(reg) == [dict |-> reg, shared |-> TRUE]

nodes_copy(reg) == [dict |-> reg, shared |-> FALSE]

\* The caller's objects when it holds roster r and no snapshot.
Holding(r, shared) ==
    [roster |-> r, roster_shared |-> shared,
     snapshot |-> EmptyDict, snapshot_shared |-> FALSE]

\* MinMaxTree.is_player(player)
is_player(roster, p) == p \in DOMAIN roster

\* MinMaxTree.add_node(node) as a function of the registry; ids gives node.id.
add_node(reg, node, ids) ==
    IF node # NoNode THEN DictSet(reg, ids[node], node) ELSE reg

\* MinMaxTree.remove_node(id): the registry after the pop, and what it returns.
remove_node(reg, k) == DictPop(reg, k)
remove_node_ret(reg, k) == IF k \in DOMAIN reg THEN reg[k] ELSE NoNode

\* (a re-key that forgets to remove the old entry)
update_node_id_keeps_old(reg, old_id, ids) ==
    add_node(reg, remove_node_ret(reg, old_id), ids)

\* MinMaxTree.update_node_id(old_id)
update_node_id(reg, old_id, ids) ==
    add_node(remove_node(reg, old_id), remove_node_ret(reg, old_id), ids)

\* MinMaxTree.get_node(id): the node returned, or KeyError.
get_node(reg, k) ==
    IF k \in DOMAIN reg
    THEN [ret |-> reg[k], err |-> "ok"]
    ELSE [ret |-> NoNode, err |-> "KeyError"]

\* MinMaxTree.num_players
num_players(roster) == Len0(roster)

\* ------------------------------------------------------------ Node
\* (a resync that resets the caches whatever their size)
update_players_always(vals, bms, roster) ==
    [values |-> [p \in DOMAIN roster |-> Some(0)],
     best_moves |-> [p \in DOMAIN roster |-> None]]

\* (a resync that compares the key sets instead of the sizes)
update_players_by_keys(vals, bms, roster) ==
    IF DOMAIN roster # DOMAIN vals
    THEN [values |-> [p \in DOMAIN roster |-> Some(0)],
          best_moves |-> [p \in DOMAIN roster |-> None]]
    ELSE [values |-> vals, best_moves |-> bms]

\* (a resync that rebuilds the values and forgets the best moves)
update_players_values_only(vals, bms, roster) ==
    IF num_players(roster) # Len0(vals)
    THEN [values |-> [p \in DOMAIN roster |-> Some(0)], best_moves |-> bms]
    ELSE [values |-> vals, best_moves |-> bms]

\* Node.update_players(): the node's two caches afterwards.
update_players(vals, bms, roster) ==
    IF num_players(roster) # Len0(vals)
    THEN [values |-> [p \in DOMAIN roster |-> Some(0)],
          best_moves |-> [p \in DOMAIN roster |-> None]]
    ELSE [values |-> vals, best_moves |-> bms]

\* Node.id setter: the registry afterwards; ids2 is the ids after self.__id = id.
id_setter(reg, ids2, n, old_id) ==
    IF old_id = NoneId
    THEN add_node(reg, n, ids2)
    ELSE update_node_id(reg, old_id, ids2)

\* Node.value(player) on a cache: the entry, or KeyError.
value(vals, p) ==
    IF p \in DOMAIN vals
    THEN [ret |-> vals[p], err |-> "ok"]
    ELSE [ret |-> None, err |-> "KeyError"]

\* (the test with the comparison turned round: the worst move is kept)
adopts_min(cur, end_value) ==
    IsNone(cur) \/ (0 - end_value) < Val(cur)

\* (the test with >= for >: a later move of equal value replaces the first)
adopts_ge(cur, end_value) ==
    IsNone(cur) \/ (0 - end_value) >= Val(cur)

\* (the test without the sign flip on the value compared)
adopts_no_flip(cur, end_value) ==
    IsNone(cur) \/ end_value > Val(cur)

\* Node.update, the test of line 161: cur is self._values[current_player],
\* end_value a number.
adopts(cur, end_value) ==
    IsNone(cur) \/ (0 - end_value) > Val(cur)

\* (a reset that clears the best moves and keeps the values)
reset_caches_keeps_values(vals, bms) ==
    [v |-> vals, b |-> [p \in DOMAIN bms |-> None], err |-> "ok"]

\* Node.update, lines 154-156: every key of __best_moves is reset in both caches.
reset_caches(vals, bms) ==
    [v |-> [p \in DOMAIN vals \cup DOMAIN bms |->
                IF p \in DOMAIN bms THEN None ELSE vals[p]],
     b |-> [p \in DOMAIN bms |-> None],
     err |-> "ok"]

\* (a loop body that stores the destination's value without the sign flip)
scan_step_no_flip(allvals, tr, n, t, st) ==
    LET end == tr[t].end_node
        cp == tr[t].current_player
        np == tr[t].next_player
        end_value == value(IF end = n THEN st.v ELSE allvals[end], np)
    IN IF end_value.err # "ok" THEN [st EXCEPT !.err = "KeyError"]
       ELSE IF cp \notin DOMAIN st.v THEN [st EXCEPT !.err = "KeyError"]
       ELSE IF IsNone(end_value.ret) THEN [st EXCEPT !.err = "TypeError"]
       ELSE IF adopts(st.v[cp], Val(end_value.ret))
            THEN [v |-> [st.v EXCEPT ![cp] = Some(Val(end_value.ret))],
                  b |-> DictSet(st.b, cp, Some(t)),
                  err |-> "ok"]
            ELSE st

\* Node.update, one turn of the loop of lines 159-163 for transition object t
\* (a handle into tr) on node n; st holds n's caches so far, allvals the caches
\* of the other nodes. An exception ends the call with the caches as they are.
scan_step(allvals, tr, n, t, st) ==
    LET end == tr[t].end_node
        cp == tr[t].current_player
        np == tr[t].next_player
        end_value == value(IF end = n THEN st.v ELSE allvals[end], np)
    IN IF end_value.err # "ok" THEN [st EXCEPT !.err = "KeyError"]
       ELSE IF cp \notin DOMAIN st.v THEN [st EXCEPT !.err = "KeyError"]
       ELSE IF IsNone(end_value.ret) THEN [st EXCEPT !.err = "TypeError"]
       ELSE IF adopts(st.v[cp], Val(end_value.ret))
            THEN [v |-> [st.v EXCEPT ![cp] = Some(0 - Val(end_value.ret))],
                  b |-> DictSet(st.b, cp, Some(t)),
                  err |-> "ok"]
            ELSE st

\* Node.update, the loop of lines 159-163 from the i-th transition of ts on.
RECURSIVE scan(_, _, _, _, _, _)
scan(allvals, tr, n, ts, i, st) ==
    IF i > Len(ts) \/ st.err # "ok"
    THEN st
    ELSE scan(allvals, tr, n, ts, i + 1, scan_step(allvals, tr, n, ts[i], st))

\* Node.update, the else branch (lines 153-163): n's caches and the outcome.
update(allvals, bms, tr, n, ts) ==
    scan(allvals, tr, n, ts, 1, reset_caches(allvals[n], bms))

\* The test of line 150: update() hands the node to update_values() when it is
\* not expanded or is terminal.
delegates_unexpanded(exp, term) == ~exp

delegates(exp, term) == ~exp \/ term

\* Node.update_values of a subclass: the caches it may leave, every existing
\* key set to a number (lines 176-182).
update_values(vals) == [DOMAIN vals -> {Some(x) : x \in LeafVals}]

\* Node.best_move(player): self.__best_moves[player].action. A missing key is a
\* KeyError, an unset entry (None has no .action) an AttributeError.
best_move_of_none(bms, tr, p) ==
    IF p \notin DOMAIN bms THEN [ret |-> 0, err |-> "KeyError"]
    ELSE IF IsNone(bms[p]) THEN [ret |-> 0, err |-> "ok"]
    ELSE [ret |-> tr[Val(bms[p])].action, err |-> "ok"]

best_move(bms, tr, p) ==
    IF p \notin DOMAIN bms THEN [ret |-> 0, err |-> "KeyError"]
    ELSE IF IsNone(bms[p]) THEN [ret |-> 0, err |-> "AttributeError"]
    ELSE [ret |-> tr[Val(bms[p])].action, err |-> "ok"]

\* Node.remove_transition(transition): list.remove takes out the first element
\* equal to it (Transition defines no __eq__: the same object) and raises
\* ValueError when there is none.
remove_transition(ts, t) ==
    IF \E i \in DOMAIN ts : ts[i] = t
    THEN LET i == CHOOSE j \in DOMAIN ts :
                      ts[j] = t /\ \A h \in 1..(j - 1) : ts[h] # t
         IN [ts |-> SubSeq(ts, 1, i - 1) \o SubSeq(ts, i + 1, Len(ts)),
             err |-> "ok"]
    ELSE [ts |-> ts, err |-> "ValueError"]

\* (an isinstance test that lets everything through)
is_node_unchecked(x, ids) == TRUE

\* Transition.start_node / end_node setters: a non-Node raises TypeError.
is_node(x, ids) == x \in DOMAIN ids

\* Transition.start_node / end_node setter applied to the endpoint cur: the
\* endpoint afterwards and the outcome.
endpoint_setter(cur, x, ids) ==
    IF is_node(x, ids) THEN [node |-> x, err |-> "ok"]
    ELSE [node |-> cur, err |-> "TypeError"]

\* ------------------------------------------------------------ initial state
\* MinMaxTree.__init__(players): a copy of the roster, an empty registry.
Init ==
    /\ \E r \in Rosters :
          /\ players = players_copy(r).dict
          /\ caller = Holding(r, players_copy(r).shared)
    /\ nodes = EmptyDict
    /\ id = <<>>
    /\ expanded = <<>>
    /\ terminal = <<>>
    /\ values = <<>>
    /\ best_moves = <<>>
    /\ transitions = <<>>
    /\ trans = <<>>
    /\ done = {}
    /\ last = Call("tree_init", NoNode, 0, 0, FALSE, "ok")

\* ------------------------------------------------------------ actions
\* Node.__init__(tree) of a subclass whose init_id does self.id = k and whose
\* terminal predicate is term.
NodeInit(k, term) ==
    /\ Len(id) < MaxNodes
    /\ LET n == Len(id) + 1
           ids2 == Append(id, k)
           up == update_players(EmptyDict, EmptyDict, players)
       IN /\ id' = ids2
          /\ nodes' = id_setter(nodes, ids2, n, NoneId)
          /\ expanded' = Append(expanded, FALSE)
          /\ terminal' = Append(terminal, term)
          /\ values' = Append(values, up.values)
          /\ best_moves' = Append(best_moves, up.best_moves)
          /\ transitions' = Append(transitions, <<>>)
          /\ last' = Call("node_init", n, k, NoneId, FALSE, "ok")
    /\ UNCHANGED <<caller, players, trans, done>>

\* node.id = k
IdSetter(n, k) ==
    /\ n \in Created
    /\ LET ids2 == [id EXCEPT ![n] = k]
       IN /\ id' = ids2
          /\ nodes' = id_setter(nodes, ids2, n, id[n])
          /\ last' = Call("set_id", n, k, id[n],
                          id[n] \in DOMAIN nodes /\ nodes[id[n]] = n, "ok")
    /\ UNCHANGED <<caller, players, expanded, terminal, values, best_moves,
                   transitions, trans, done>>

\* tree.add_node(node); node = NoNode is add_node(None)
AddNodeCall(n) ==
    /\ n \in Created \cup {NoNode}
    /\ nodes' = add_node(nodes, n, id)
    /\ last' = Call("add_node", n, 0, 0, FALSE, "ok")
    /\ UNCHANGED <<caller, players, id, expanded, terminal, values, best_moves,
                   transitions, trans, done>>

\* tree.remove_node(k)
RemoveNodeCall(k) ==
    /\ nodes' = remove_node(nodes, k)
    /\ last' = Call("remove_node", remove_node_ret(nodes, k), k, 0, FALSE, "ok")
    /\ UNCHANGED <<caller, players, id, expanded, terminal, values, best_moves,
                   transitions, trans, done>>

\* tree.get_node(k): the node returned, or KeyError
GetNodeCall(k) ==
    /\ last' = Call("get_node", get_node(nodes, k).ret, k, 0, FALSE,
                    get_node(nodes, k).err)
    /\ UNCHANGED <<caller, players, nodes, id, expanded, terminal, values, best_moves,
                   transitions, trans, done>>

\* tree.players = r: the roster is replaced by a copy, then the loop of line 34
\* takes the registry's keys for nodes and fails on the first one.
PlayersSetter(r) ==
    /\ players' = players_copy(r).dict
    /\ caller' = [caller EXCEPT !.roster = r,
                                !.roster_shared = players_copy(r).shared]
    /\ last' = Call("set_players", NoNode, Len0(r), Len0(players), FALSE,
                    IF DOMAIN nodes = {} THEN "ok" ELSE "AttributeError")
    /\ UNCHANGED <<nodes, id, expanded, terminal, values, best_moves,
                   transitions, trans, done>>

\* The caller changes the roster object it passed to the tree (adds, removes or
\* changes entries) into r2; the tree sees it only if it kept that object.
CallerMutatesRoster(r2) ==
    /\ r2 # caller.roster
    /\ caller' = [caller EXCEPT !.roster = r2]
    /\ players' = IF caller.roster_shared THEN r2 ELSE players
    /\ last' = Call("mutate_roster", NoNode, Len0(r2), Len0(caller.roster),
                    FALSE, "ok")
    /\ UNCHANGED <<nodes, id, expanded, terminal, values, best_moves,
                   transitions, trans, done>>

\* tree.nodes: the caller is handed a copy of the registry.
NodesCall ==
    /\ caller' = [caller EXCEPT !.snapshot = nodes_copy(nodes).dict,
                                !.snapshot_shared = nodes_copy(nodes).shared]
    /\ last' = Call("nodes", NoNode, Len0(nodes), 0, FALSE, "ok")
    /\ UNCHANGED <<players, nodes, id, expanded, terminal, values, best_moves,
                   transitions, trans, done>>

\* The caller deletes key k from the dict tree.nodes gave it; the registry
\* sees it only if that dict is the registry itself.
CallerMutatesSnapshot(k) ==
    /\ k \in DOMAIN caller.snapshot
    /\ caller' = [caller EXCEPT !.snapshot = DictPop(@, k)]
    /\ nodes' = IF caller.snapshot_shared THEN DictPop(nodes, k) ELSE nodes
    /\ last' = Call("mutate_snapshot", NoNode, k, 0, FALSE, "ok")
    /\ UNCHANGED <<players, id, expanded, terminal, values, best_moves,
                   transitions, trans, done>>

\* node.update_players()
UpdatePlayersCall(n) ==
    /\ n \in Created
    /\ LET up == update_players(values[n], best_moves[n], players)
       IN /\ values' = [values EXCEPT ![n] = up.values]
          /\ best_moves' = [best_moves EXCEPT ![n] = up.best_moves]
          /\ last' = Call("update_players", n, Len0(players), Len0(values[n]),
                          FALSE, "ok")
    /\ UNCHANGED <<caller, players, nodes, id, expanded, terminal, transitions, trans,
                   done>>

\* node.expand(): the subclass's expansion, which sets _expanded.
ExpandCall(n) ==
    /\ n \in Created
    /\ expanded' = [expanded EXCEPT ![n] = TRUE]
    /\ last' = Call("expand", n, 0, 0, FALSE, "ok")
    /\ UNCHANGED <<caller, players, nodes, id, terminal, values, best_moves,
                   transitions, trans, done>>

\* Transition(start_node, end_node, current_player, next_player, action);
\* NoNode stands for an endpoint that is no Node.
TransitionInit(s, e, cp, np, a) ==
    /\ Len(trans) < MaxTrans
    /\ IF is_node(s, id) /\ is_node(e, id)
       THEN /\ trans' = Append(trans, [start_node |-> s, end_node |-> e,
                                       current_player |-> cp,
                                       next_player |-> np, action |-> a])
            /\ last' = Call("transition_init", s, Len(trans) + 1, e, FALSE, "ok")
       ELSE /\ trans' = trans
            /\ last' = Call("transition_init", s, 0, e, FALSE, "TypeError")
    /\ UNCHANGED <<caller, players, nodes, id, expanded, terminal, values, best_moves,
                   transitions, done>>

\* t.start_node = x
SetStartNode(t, x) ==
    /\ t \in DOMAIN trans
    /\ LET r == endpoint_setter(trans[t].start_node, x, id)
       IN /\ trans' = [trans EXCEPT ![t].start_node = r.node]
          /\ last' = Call("set_start_node", x, t, 0, FALSE, r.err)
    /\ UNCHANGED <<caller, players, nodes, id, expanded, terminal, values,
                   best_moves, transitions, done>>

\* t.end_node = x
SetEndNode(t, x) ==
    /\ t \in DOMAIN trans
    /\ LET r == endpoint_setter(trans[t].end_node, x, id)
       IN /\ trans' = [trans EXCEPT ![t].end_node = r.node]
          /\ last' = Call("set_end_node", x, t, 0, FALSE, r.err)
    /\ UNCHANGED <<caller, players, nodes, id, expanded, terminal, values,
                   best_moves, transitions, done>>

\* node.add_transition(t)
AddTransitionCall(n, t) ==
    /\ n \in Created /\ t \in DOMAIN trans
    /\ Len(transitions[n]) < MaxMoves
    /\ transitions' = [transitions EXCEPT ![n] = Append(@, t)]
    /\ last' = Call("add_transition", n, t, 0, FALSE, "ok")
    /\ UNCHANGED <<caller, players, nodes, id, expanded, terminal, values, best_moves,
                   trans, done>>

\* node.remove_transition(t)
RemoveTransitionCall(n, t) ==
    /\ n \in Created /\ t \in DOMAIN trans
    /\ transitions' = [transitions EXCEPT ![n] = remove_transition(@, t).ts]
    /\ last' = Call("remove_transition", n, t, 0, FALSE,
                    remove_transition(transitions[n], t).err)
    /\ UNCHANGED <<caller, players, nodes, id, expanded, terminal, values,
                   best_moves, trans, done>>

\* node.best_move(p); the action returned is recorded in the call's old field.
BestMoveCall(n, p) ==
    /\ n \in Created
    /\ LET r == best_move(best_moves[n], trans, p)
       IN last' = Call("best_move", n, p, r.ret, FALSE, r.err)
    /\ UNCHANGED <<caller, players, nodes, id, expanded, terminal, values,
                   best_moves, transitions, trans, done>>

\* node.update() on a node that is unexpanded or terminal: update_values().
\* (UpdateLeaf and UpdateInner leave the caller's pass to the action using them.)
UpdateLeaf(n) ==
    /\ n \in Created
    /\ delegates(expanded[n], terminal[n])
    /\ \E vs \in update_values(values[n]) :
          values' = [values EXCEPT ![n] = vs]
    /\ last' = Call("update", n, 0, 0, FALSE, "ok")
    /\ UNCHANGED <<caller, players, nodes, id, expanded, terminal, best_moves,
                   transitions, trans>>

\* (an update that also recomputes the nodes its transitions lead to)
UpdateInnerCascading(n) ==
    /\ n \in Created
    /\ ~delegates(expanded[n], terminal[n])
    /\ LET st == update(values, best_moves[n], trans, n, transitions[n])
           dests == {trans[transitions[n][i]].end_node :
                        i \in DOMAIN transitions[n]}
       IN /\ values' = [m \in DOMAIN values |->
                           IF m = n THEN st.v
                           ELSE IF m \in dests
                                THEN [p \in DOMAIN values[m] |-> Some(0)]
                                ELSE values[m]]
          /\ best_moves' = [best_moves EXCEPT ![n] = st.b]
          /\ last' = Call("update", n, 1, 0, FALSE, st.err)
    /\ UNCHANGED <<caller, players, nodes, id, expanded, terminal, transitions,
                   trans>>

\* node.update() on an expanded, non-terminal node.
UpdateInner(n) ==
    /\ n \in Created
    /\ ~delegates(expanded[n], terminal[n])
    /\ LET st == update(values, best_moves[n], trans, n, transitions[n])
       IN /\ values' = [values EXCEPT ![n] = st.v]
          /\ best_moves' = [best_moves EXCEPT ![n] = st.b]
          /\ last' = Call("update", n, 1, 0, FALSE, st.err)
    /\ UNCHANGED <<caller, players, nodes, id, expanded, terminal, transitions, trans>>

\* node.update(), called outside a bottom-up pass
UpdateCall(n) ==
    /\ UpdateLeaf(n) \/ UpdateInner(n)
    /\ UNCHANGED done

\* node.update(), called by a caller that updates the nodes bottom-up: each
\* node once, after every destination of its transitions.
PassUpdate(n) ==
    /\ n \in Created \ done
    /\ \A i \in DOMAIN transitions[n] : trans[transitions[n][i]].end_node \in done
    /\ UpdateLeaf(n) \/ UpdateInner(n)
    /\ done' = done \cup {n}

\* MinMaxTree(): the tree built with no roster.
InitRegistry == Init /\ players = EmptyDict

NextRegistry ==
    \/ \E k \in Ids : NodeInit(k, FALSE)
    \/ \E n \in NodeIds, k \in Keys : IdSetter(n, k)
    \/ \E n \in NodeIds \cup {NoNode} : AddNodeCall(n)
    \/ \E k \in Keys : RemoveNodeCall(k)
    \/ \E k \in Keys : GetNodeCall(k)

SpecRegistry == InitRegistry /\ [][NextRegistry]_vars

\* TestNode.init_id of minmax_ut.py: the identifier is a counter of the nodes built.
TestNodeId == Len(id)

NextRoster ==
    \/ Len(id) < MaxRosterNodes /\ NodeInit(TestNodeId, FALSE)
    \/ \E r \in Rosters : PlayersSetter(r)
    \/ \E n \in NodeIds : UpdatePlayersCall(n)
    \/ \E n \in NodeIds : ExpandCall(n)
    \/ \E n \in NodeIds : UpdateCall(n)

SpecRoster == Init /\ [][NextRoster]_vars

\* ------------------------------------------------------------ caller's dicts
\* A tree built with any roster; the caller builds nodes, assigns rosters,
\* changes the roster object it holds and resyncs the nodes.
NextCopy ==
    \/ Len(id) < MaxRosterNodes /\ NodeInit(TestNodeId, FALSE)
    \/ \E r \in Rosters : PlayersSetter(r)
    \/ \E r2 \in Rosters : CallerMutatesRoster(r2)
    \/ \E n \in NodeIds : UpdatePlayersCall(n)

SpecCopy == Init /\ [][NextCopy]_vars

\* A tree on which the caller builds nodes with identifiers of its choice,
\* takes snapshots of the registry, deletes entries of a snapshot and looks
\* nodes up.
NextSnapshot ==
    \/ \E k \in Ids : NodeInit(k, FALSE)
    \/ NodesCall
    \/ \E k \in Ids : CallerMutatesSnapshot(k)
    \/ \E k \in Ids : GetNodeCall(k)

SpecSnapshot == InitRegistry /\ [][NextSnapshot]_vars

\* ------------------------------------------------------------ transitions
\* The caller builds nodes and transitions between whatever it has at hand,
\* Nodes or not, and re-assigns the endpoints of the transitions it got.
NextTransition ==
    \/ Len(id) < MaxRosterNodes /\ NodeInit(TestNodeId, FALSE)
    \/ \E s, e \in NodeIds \cup {NoNode} : TransitionInit(s, e, 1, 1, 1)
    \/ \E t \in 1..MaxTrans, x \in NodeIds \cup {NoNode} : SetStartNode(t, x)
    \/ \E t \in 1..MaxTrans, x \in NodeIds \cup {NoNode} : SetEndNode(t, x)

SpecTransition == InitRegistry /\ [][NextTransition]_vars

\* ------------------------------------------------------------ update worlds
\* The roster of minmax_ut.py for k players: odd players USER, even players AI.
TestRoster(k) == [p \in 1..k |-> IF p % 2 = 1 THEN "USER" ELSE "AI"]

\* The transitions a caller may have built from node 1 to the other nodes.
Edge(e, cp, np, a) ==
    [start_node |-> 1, end_node |-> e, current_player |-> cp,
     next_player |-> np, action |-> a]
EdgeLists ==
    UNION {{ts \in [1..k -> [start_node : {1}, end_node : 2..MaxNodes,
                             current_player : PlayerIds,
                             next_player : PlayerIds, action : 1..MaxMoves]] :
               \A i \in 1..k : /\ ts[i].action = i
                                /\ ts[i].end_node <= i + 1} :
           k \in 0..MaxMoves}

\* A tree with the unit test's roster on which MaxNodes non-terminal nodes were
\* built with the identifiers 0, 1, ... (TestNode.init_id), and node 1 was
\* expanded: it holds the transitions of its moves to the other nodes, which
\* are not expanded yet.
InitUpdate ==
    /\ \E k \in 1..MaxPlayers : players = TestRoster(k)
    /\ id = [n \in NodeIds |-> n - 1]
    /\ nodes = [k \in {n - 1 : n \in NodeIds} |-> k + 1]
    /\ expanded = [n \in NodeIds |-> n = 1]
    /\ terminal = [n \in NodeIds |-> FALSE]
    /\ values = [n \in NodeIds |->
                    update_players(EmptyDict, EmptyDict, players).values]
    /\ best_moves = [n \in NodeIds |->
                        update_players(EmptyDict, EmptyDict, players).best_moves]
    /\ trans \in EdgeLists
    /\ transitions = [n \in NodeIds |->
                         IF n = 1 THEN [i \in 1..Len(trans) |-> i] ELSE <<>>]
    /\ done = {}
    /\ caller = Holding(players, players_copy(players).shared)
    /\ last = Call("build", NoNode, 0, 0, FALSE, "ok")

NextUpdate ==
    \/ \E n \in NodeIds : ExpandCall(n)
    \/ \E n \in NodeIds : UpdateCall(n)

SpecUpdate == InitUpdate /\ [][NextUpdate]_vars

\* ------------------------------------------------------------ move worlds
\* The transitions a caller may have built from node 1 to node 2.
MoveLists ==
    {ts \in EdgeLists : \A i \in DOMAIN ts : ts[i].end_node <= MaxRosterNodes}

\* A tree with the unit test's roster and MaxRosterNodes nodes built with the
\* identifiers 0, 1, ...; node 1 was expanded, its subclass calls it terminal
\* or not, and the caller holds transitions it has not handed to a node yet.
InitMoves ==
    /\ \E k \in 1..MaxPlayers : players = TestRoster(k)
    /\ id = [n \in 1..MaxRosterNodes |-> n - 1]
    /\ nodes = [k \in {n - 1 : n \in 1..MaxRosterNodes} |-> k + 1]
    /\ expanded = [n \in 1..MaxRosterNodes |-> n = 1]
    /\ \E term \in BOOLEAN :
          terminal = [n \in 1..MaxRosterNodes |-> n = 1 /\ term]
    /\ values = [n \in 1..MaxRosterNodes |->
                    update_players(EmptyDict, EmptyDict, players).values]
    /\ best_moves = [n \in 1..MaxRosterNodes |->
                        update_players(EmptyDict, EmptyDict, players).best_moves]
    /\ trans \in MoveLists
    /\ transitions = [n \in 1..MaxRosterNodes |-> <<>>]
    /\ done = {}
    /\ caller = Holding(players, players_copy(players).shared)
    /\ last = Call("build", NoNode, 0, 0, FALSE, "ok")

\* The caller hands node 1 its transitions and takes them back, updates the
\* nodes in any order, resizes the roster and asks for the best moves.
NextMoves ==
    \/ \E t \in 1..MaxMoves : AddTransitionCall(1, t)
    \/ \E t \in 1..MaxMoves : RemoveTransitionCall(1, t)
    \/ \E n \in NodeIds : UpdateCall(n)
    \/ \E k \in 1..MaxPlayers : PlayersSetter(TestRoster(k))
    \/ \E n \in NodeIds : UpdatePlayersCall(n)
    \/ \E n \in NodeIds, p \in PlayerIds : BestMoveCall(n, p)

SpecMoves == InitMoves /\ [][NextMoves]_vars

\* ------------------------------------------------------------ whole program
\* Every call a caller can make, in any order.
Next ==
    \/ \E k \in Ids, term \in BOOLEAN : NodeInit(k, term)
    \/ \E n \in NodeIds, k \in Keys : IdSetter(n, k)
    \/ \E n \in NodeIds \cup {NoNode} : AddNodeCall(n)
    \/ \E k \in Keys : RemoveNodeCall(k)
    \/ \E k \in Keys : GetNodeCall(k)
    \/ \E r \in Rosters : PlayersSetter(r)
    \/ \E n \in NodeIds : UpdatePlayersCall(n)
    \/ \E n \in NodeIds : ExpandCall(n)
    \/ \E s, e \in NodeIds \cup {NoNode}, cp, np \in PlayerIds, a \in 1..MaxMoves :
          TransitionInit(s, e, cp, np, a)
    \/ \E n \in NodeIds, t \in 1..MaxTrans : AddTransitionCall(n, t)
    \/ \E n \in NodeIds, t \in 1..MaxTrans : RemoveTransitionCall(n, t)
    \/ \E t \in 1..MaxTrans, x \in NodeIds \cup {NoNode} : SetStartNode(t, x)
    \/ \E t \in 1..MaxTrans, x \in NodeIds \cup {NoNode} : SetEndNode(t, x)
    \/ \E n \in NodeIds : UpdateCall(n)
    \/ \E n \in NodeIds, p \in PlayerIds : BestMoveCall(n, p)
    \/ \E r2 \in Rosters : CallerMutatesRoster(r2)
    \/ NodesCall
    \/ \E k \in Keys : CallerMutatesSnapshot(k)

Spec == Init /\ [][Next]_vars

\* ------------------------------------------------------------ bottom-up pass
\* The lists without repetition of at most MaxMoves elements of S.
NoDupSeqs(S) ==
    UNION {{q \in [1..k -> S] : \A i, j \in 1..k : i # j => q[i] # q[j]} :
           k \in 0..MaxMoves}

RECURSIVE SumLen(_, _)
\* The number of transitions of the nodes 1..n of graph g.
SumLen(g, n) == IF n = 0 THEN 0 ELSE SumLen(g, n - 1) + Len(g[n])

\* The acyclic graphs: each node's list of destinations, all built after it,
\* one transition per destination (the module's assumption 1).
PassGraphs ==
    {g \in [NodeIds -> NoDupSeqs(NodeIds)] :
        /\ \A n \in NodeIds : \A i \in DOMAIN g[n] : g[n][i] > n
        /\ SumLen(g, MaxNodes) <= MaxTrans}

\* The node whose list holds the t-th transition of graph g.
OwnerOf(g, t) ==
    CHOOSE n \in NodeIds : SumLen(g, n - 1) < t /\ t <= SumLen(g, n)

\* The Transition objects of graph g, numbered node by node, when mover[n] is
\* the player to move at node n.
PassTrans(g, mover) ==
    [t \in 1..SumLen(g, MaxNodes) |->
        LET n == OwnerOf(g, t)
            i == t - SumLen(g, n - 1)
        IN [start_node |-> n, end_node |-> g[n][i],
            current_player |-> mover[n], next_player |-> mover[g[n][i]],
            action |-> i]]

\* A tree with the unit test's roster and MaxNodes nodes, expanded into an
\* acyclic graph in which one player moves at each node; the nodes that are
\* not expanded or are terminal are the leaves. No node was updated yet.
InitPass ==
    /\ players = TestRoster(MaxPlayers)
    /\ id = [n \in NodeIds |-> n - 1]
    /\ nodes = [k \in {n - 1 : n \in NodeIds} |-> k + 1]
    /\ terminal \in [NodeIds -> BOOLEAN]
    /\ values = [n \in NodeIds |->
                    update_players(EmptyDict, EmptyDict, players).values]
    /\ best_moves = [n \in NodeIds |->
                        update_players(EmptyDict, EmptyDict, players).best_moves]
    /\ \E g \in PassGraphs, mover \in [NodeIds -> PlayerIds] :
          /\ trans = PassTrans(g, mover)
          /\ transitions = [n \in NodeIds |->
                               [i \in DOMAIN g[n] |-> SumLen(g, n - 1) + i]]
          /\ expanded = [n \in NodeIds |-> g[n] # <<>>]
    /\ done = {}
    /\ caller = Holding(players, players_copy(players).shared)
    /\ last = Call("build", NoNode, 0, 0, FALSE, "ok")

NextPass == \E n \in NodeIds : PassUpdate(n)

SpecPass == InitPass /\ [][NextPass]_vars

\* ------------------------------------------------------------ registry claims
\* Node n is in the registry under its own id.
Registered(n) ==
    n \in Created /\ id[n] \in DOMAIN nodes /\ nodes[id[n]] = n

\* C1 (as stated): whenever a node registered under an identifier oldId is
\* assigned any identifier newId, get_node(newId) then returns that node and
\* get_node(oldId) then fails with KeyError.
C1_IdIntegrityAsStated ==
    [][\A n \in NodeIds, k \in Ids :
        (Registered(n) /\ id[n] # NoneId /\ IdSetter(n, k))
        => /\ get_node(nodes', k) = [ret |-> n, err |-> "ok"]
           /\ get_node(nodes', id[n]).err = "KeyError"]_vars

\* C1 (amended): whenever a node registered under an identifier oldId is
\* assigned a value newId different from oldId, get_node(newId) then returns
\* that node and get_node(oldId) then fails with KeyError.
C1_IdIntegrity ==
    [][\A n \in NodeIds, k \in Keys :
        (Registered(n) /\ id[n] # NoneId /\ k # id[n] /\ IdSetter(n, k))
        => /\ get_node(nodes', k) = [ret |-> n, err |-> "ok"]
           /\ get_node(nodes', id[n]).err = "KeyError"]_vars

\* A registered node has just been given a different identifier while another
\* node holds its old identifier and a third party held the new one.
C1_Witness ==
    /\ last.op = "set_id" /\ last.held
    /\ last.old # NoneId /\ last.arg # last.old
    /\ \E m \in Created \ {last.node} : id[m] = last.old
    /\ \E m \in Created \ {last.node} : id[m] = last.arg

\* C2 (as stated): every node stored in the registry is stored under exactly
\* one key, and that key is the node's current id.
C2_RegistryInvariant ==
    /\ \A k \in DOMAIN nodes : id[nodes[k]] = k
    /\ \A k1, k2 \in DOMAIN nodes : nodes[k1] = nodes[k2] => k1 = k2

\* ------------------------------------------------------------ roster claims
\* The nodes the registry holds.
RegisteredNodes(reg) == {reg[k] : k \in DOMAIN reg}

\* The caches of a node that was just reset for roster r.
ResetFor(vals, bms, r) ==
    /\ vals = [p \in DOMAIN r |-> Some(0)]
    /\ bms = [p \in DOMAIN r |-> None]

\* C3 (as stated): when the registry holds nodes whose caches have as many
\* entries as the roster, assigning tree.players a roster of another size
\* completes and leaves every registered node with value 0 and no best move
\* for exactly the players of the new roster.
C3_ResizeResets ==
    [][\A r \in Rosters :
        (/\ DOMAIN nodes # {}
         /\ \A n \in RegisteredNodes(nodes) : Len0(values[n]) = Len0(players)
         /\ Len0(r) # Len0(players)
         /\ PlayersSetter(r))
        => /\ last'.err = "ok"
           /\ \A n \in RegisteredNodes(nodes') :
                 ResetFor(values'[n], best_moves'[n], r)]_vars

\* C4 (as stated): each node's value mapping and bestMove mapping have exactly
\* as many entries as the tree's current roster.
C4_CacheSizeInvariant ==
    \A n \in Created :
        /\ Len0(values[n]) = num_players(players)
        /\ Len0(best_moves[n]) = num_players(players)

\* C5: a step that replaces the roster by one with as many entries as a node's
\* caches, or that calls update_players on a node whose caches have as many
\* entries as the roster, leaves that node's value and bestMove mappings as
\* they were.
C5_SameSizeInvisible ==
    [][\A n \in NodeIds :
        (/\ n \in Created
         /\ \/ UpdatePlayersCall(n) /\ Len0(values[n]) = Len0(players)
            \/ \E r \in Rosters : Len0(r) = Len0(values[n]) /\ PlayersSetter(r))
        => /\ values'[n] = values[n]
           /\ best_moves'[n] = best_moves[n]]_vars

\* update_players has just run on a node whose caches hold a value other than
\* zero for players that are not those of the roster, which has the same size.
C5_Witness ==
    /\ last.op = "update_players"
    /\ last.arg = last.old /\ last.arg > 0
    /\ DOMAIN values[last.node] # DOMAIN players
    /\ \E p \in DOMAIN values[last.node] : values[last.node][p] # Some(0)

\* ------------------------------------------------------------ update claims
\* The i-th transition of node n.
Move(n, i) == trans[transitions[n][i]]

\* The positions in n's list of the transitions whose current_player is p.
MovesOf(n, p) == {i \in DOMAIN transitions[n] : Move(n, i).current_player = p}

\* The players that are current_player of a transition of n.
Movers(n) == {Move(n, i).current_player : i \in DOMAIN transitions[n]}

\* Every destination of n holds a number for its transition's next_player.
DestsSet(n) ==
    \A i \in DOMAIN transitions[n] :
        LET v == value(values[Move(n, i).end_node], Move(n, i).next_player)
        IN v.err = "ok" /\ ~IsNone(v.ret)

\* -(t.end_node.value(t.next_player)) for the i-th transition t of n.
Cand(n, i) == 0 - Val(values[Move(n, i).end_node][Move(n, i).next_player])

MaxOf(S) == CHOOSE x \in S : \A y \in S : y <= x
MinOf(S) == CHOOSE x \in S : \A y \in S : x <= y

\* The best candidate value among the transitions of n whose mover is p.
BestCand(n, p) == MaxOf({Cand(n, i) : i \in MovesOf(n, p)})

PlayersKnown(n) ==
    \A i \in DOMAIN transitions[n] :
        /\ Move(n, i).current_player \in DOMAIN values[n]
        /\ Move(n, i).next_player \in DOMAIN values[Move(n, i).end_node]

\* C9 (as stated): update() on an expanded, non-terminal node whose transitions
\* name players of the caches never raises, whatever was updated before it and
\* also when a destination holds an unset value.
C9_OutOfOrderNoFault ==
    [][\A n \in NodeIds :
        (UpdateInner(n) /\ PlayersKnown(n)) => last'.err = "ok"]_vars

\* C10 (as stated): after update() on an expanded, non-terminal node,
\* bestMove[p] is unset for every roster player p whose role is USER.
C10_UserSkipped ==
    (last.op = "update" /\ last.arg = 1)
    => \A p \in DOMAIN players \cap DOMAIN best_moves[last.node] :
          players[p] = "USER" => IsNone(best_moves[last.node][p])

\* ------------------------------------------------------------ pass claim
\* Node n is a leaf for update(): unexpanded or terminal.
Leaf(n) == ~expanded[n] \/ terminal[n]

\* Every transition's next_player is the current_player of the transitions
\* that leave its destination.
Alternating ==
    \A t \in DOMAIN trans :
        \A i \in DOMAIN transitions[trans[t].end_node] :
            Move(trans[t].end_node, i).current_player = trans[t].next_player

RECURSIVE Negamax(_, _)
\* The negamax value of the subtree of n for player p: a leaf's own value, or
\* the maximum over n's transitions of p of the negated value of the
\* destination's subtree for the destination's mover.
Negamax(n, p) ==
    IF Leaf(n)
    THEN Val(values[n][p])
    ELSE MaxOf({0 - Negamax(Move(n, i).end_node, Move(n, i).next_player) :
                  i \in MovesOf(n, p)})

\* C8: in a bottom-up pass over an acyclic graph whose players alternate as
\* above, every expanded, non-terminal node already updated holds, for its
\* mover, the negamax value of its whole subtree.
C8_BottomUpPass ==
    Alternating =>
        \A n \in done :
            ~Leaf(n) => \A p \in Movers(n) : values[n][p] = Some(Negamax(n, p))

\* The pass has just updated node 1, which moves to the expanded node 2, which
\* moves to a leaf holding a value other than zero: node 1 holds the two-ply
\* negamax value.
C8_Witness ==
    /\ last = Call("update", 1, 1, 0, FALSE, "ok")
    /\ done = NodeIds
    /\ ~Leaf(1) /\ ~Leaf(2)
    /\ \E i \in DOMAIN transitions[1], j \in DOMAIN transitions[2] :
          /\ Move(1, i).end_node = 2
          /\ Leaf(Move(2, j).end_node)
          /\ Len(transitions[2]) = 1 /\ Len(transitions[1]) = 1
          /\ values[1][Move(1, i).current_player]
                 = values[Move(2, j).end_node][Move(2, j).next_player]
          /\ values[1][Move(1, i).current_player] # Some(0)

\* ------------------------------------------------------------ move claims
\* The transitions node n currently holds.
Owned(n) == {transitions[n][i] : i \in DOMAIN transitions[n]}

\* C11: in every reachable state each entry bestMove[p] of a node is unset or a
\* transition that is an element of the node's own transitions list.
C11_BestMoveOwned ==
    \A n \in Created : \A p \in DOMAIN best_moves[n] :
        IsNone(best_moves[n][p]) \/ Val(best_moves[n][p]) \in Owned(n)

\* C12: update() on a node that is not expanded or is terminal does what a
\* direct update_values() does, whatever transitions the node holds: it
\* returns, the values are ones update_values() may leave (none unset), and
\* the best moves are untouched.
C12_LeafDelegation ==
    [][\A n \in Created :
          (/\ last'.op = "update" /\ last'.node = n
           /\ ~expanded[n] \/ terminal[n])
          => /\ last'.err = "ok"
             /\ values'[n] \in update_values(values[n])
             /\ best_moves'[n] = best_moves[n]
             /\ transitions'[n] = transitions[n]]_vars

\* A terminal node holding two transitions was updated and has a value.
C12_Witness ==
    /\ last = Call("update", 1, 0, 0, FALSE, "ok")
    /\ terminal[1] /\ expanded[1]
    /\ Len(transitions[1]) = MaxMoves
    /\ \E p \in DOMAIN values[1] : values[1][p] = Some(1)

\* C13: after update() on an expanded, non-terminal node, every player of the
\* node's caches that no transition of the node names as current_player has
\* an unset value and an unset best move; with no transitions, every player.
C13_UnsetWithoutMove ==
    \A n \in Created :
        (last.op = "update" /\ last.node = n /\ expanded[n] /\ ~terminal[n])
        => \A p \in DOMAIN values[n] \cup DOMAIN best_moves[n] :
               p \notin Movers(n)
               => /\ p \in DOMAIN values[n] /\ IsNone(values[n][p])
                  /\ p \in DOMAIN best_moves[n] /\ IsNone(best_moves[n][p])

\* update() returned on an expanded node without transitions: all unset.
C13_Witness ==
    /\ last = Call("update", 1, 1, 0, FALSE, "ok")
    /\ transitions[1] = <<>>
    /\ DOMAIN values[1] = 1..MaxPlayers
    /\ \A p \in DOMAIN values[1] : IsNone(values[1][p]) /\ IsNone(best_moves[1][p])

\* C14: best_move(p) on a node whose bestMove[p] is unset, or that has no entry
\* for p, ends in an error and changes nothing of the tree, the nodes or the
\* transitions.
C14_BestMoveFails ==
    [][\A n \in Created : \A p \in PlayerIds :
          (/\ last'.op = "best_move" /\ last'.node = n /\ last'.arg = p
           /\ p \notin DOMAIN best_moves[n] \/ IsNone(best_moves[n][p]))
          => /\ last'.err \in {"KeyError", "AttributeError"}
             /\ UNCHANGED <<players, nodes, id, expanded, terminal, values,
                            best_moves, transitions, trans>>]_vars

\* best_move(2) failed on a node whose update() found a move for player 1 only.
C14_Witness ==
    /\ last = Call("best_move", 1, 2, 0, FALSE, "AttributeError")
    /\ ~IsNone(best_moves[1][1])
    /\ IsNone(best_moves[1][2])

\* ------------------------------------------------------------ copy claims
\* The tree's roster has the entries of roster r.
SameRoster(r) ==
    /\ num_players(players) = Len0(r)
    /\ \A p \in PlayerIds : is_player(players, p) <=> p \in DOMAIN r

\* C15: after MinMaxTree(roster) or tree.players = roster, num_players and
\* is_player are those of the roster; a later change of the caller's roster
\* object changes neither of them nor any node's caches.
C15_RosterCopied ==
    /\ SameRoster(caller.roster)
    /\ [][/\ last'.op = "set_players" => SameRoster(caller.roster)'
          /\ last'.op = "mutate_roster"
             => /\ num_players(players') = num_players(players)
                /\ \A p \in PlayerIds :
                       is_player(players', p) <=> is_player(players, p)
                /\ values' = values /\ best_moves' = best_moves]_vars

\* The caller emptied its two-player roster object after building a node; the
\* tree still has both players.
C15_Witness ==
    /\ last = Call("mutate_roster", NoNode, 0, MaxPlayers, FALSE, "ok")
    /\ num_players(players) = MaxPlayers
    /\ Len(id) > 0 /\ Len0(values[1]) = MaxPlayers

\* The nodes built so far have pairwise distinct identifiers.
DistinctIds == \A n, m \in Created : n # m => id[n] # id[m]

\* C16: a node whose id goes from unset to k is registered under k: after the
\* construction of n nodes with pairwise distinct identifiers the registry has
\* exactly n entries and get_node returns each node for its identifier. The
\* snapshot tree.nodes returns has the registry's entries, and deleting
\* entries of the snapshot leaves all of this true.
C16_SelfRegistration ==
    /\ DistinctIds
       => /\ Len0(nodes) = Len(id)
          /\ \A n \in Created :
                 get_node(nodes, id[n]) = [ret |-> n, err |-> "ok"]
    /\ last.op = "node_init" => nodes[id[last.node]] = last.node
    /\ last.op = "nodes" => caller.snapshot = nodes

\* The caller deleted both entries of a snapshot of a registry of two nodes.
C16_Witness ==
    /\ last.op = "mutate_snapshot"
    /\ caller.snapshot = EmptyDict
    /\ DistinctIds
    /\ Len(id) = MaxId + 1
    /\ Len0(nodes) = MaxId + 1

\* ------------------------------------------------------------ transition claim
\* C17: Transition(...) with a start_node or end_node that is no Node fails
\* with TypeError and yields no Transition; assigning a non-Node to an endpoint
\* of an existing Transition fails with TypeError and leaves the endpoint as
\* it was; so both endpoints of every Transition are Nodes.
C17_EndpointsValidated ==
    [][/\ (/\ last'.op = "transition_init"
           /\ last'.node \notin Created \/ last'.old \notin Created)
          => last'.err = "TypeError" /\ trans' = trans
       /\ (/\ last'.op \in {"set_start_node", "set_end_node"}
           /\ last'.node \notin Created)
          => last'.err = "TypeError" /\ trans' = trans
       /\ \A t \in DOMAIN trans' : /\ trans'[t].start_node \in Created'
                                    /\ trans'[t].end_node \in Created']_vars

\* A non-Node was refused as the end_node of a Transition between two nodes.
C17_Witness ==
    /\ last = Call("set_end_node", NoNode, 1, 0, FALSE, "TypeError")
    /\ trans[1].start_node = 1 /\ trans[1].end_node = 2

\* ------------------------------------------------------------ resync claims
\* The caches of node n after one more update_players().
Resynced(n) == update_players(values[n], best_moves[n], players)

\* C18: for every node and roster, update_players() twice in a row leaves the
\* node as update_players() once does, and update_players() on a node whose
\* cache size equals num_players changes nothing.
C18_ResyncIdempotent ==
    \A n \in Created :
        /\ update_players(Resynced(n).values, Resynced(n).best_moves, players)
               = Resynced(n)
        /\ Len0(values[n]) = num_players(players)
           => Resynced(n) = [values |-> values[n], best_moves |-> best_moves[n]]
        /\ (last.op = "update_players" /\ last.node = n)
           => Resynced(n) = [values |-> values[n], best_moves |-> best_moves[n]]

\* update_players() rebuilt the caches of a node for a roster of another size,
\* and the node has the roster's size now.
C18_Witness ==
    /\ last.op = "update_players" /\ last.node = 1
    /\ last.arg # last.old
    /\ Len0(values[1]) = num_players(players)
    /\ num_players(players) = MaxPlayers

\* C19: a node's value cache and best-move cache have the same player keys in
\* every state reached by construction, update_players, roster replacement
\* and update(), also after an update() that raised part-way.
C19_SameKeys ==
    \A n \in Created : DOMAIN values[n] = DOMAIN best_moves[n]

\* update() adopted a move for one player and then raised on a transition of a
\* player the caches have no key for.
C19_Witness ==
    /\ last = Call("update", 1, 1, 0, FALSE, "KeyError")
    /\ \E p \in DOMAIN best_moves[1] : ~IsNone(best_moves[1][p])
    /\ DOMAIN values[1] # DOMAIN players
    /\ DOMAIN values[1] = DOMAIN best_moves[1]

\* ------------------------------------------------------------ locality claim
\* C20: update() on node n changes nothing but n's own values and best moves:
\* the caches of every other node, the transitions lists, the expanded flags,
\* the transitions, the registry and the roster are as before.
C20_UpdateLocal ==
    [][\A n \in Created :
          (last'.op = "update" /\ last'.node = n)
          => /\ \A m \in Created \ {n} : /\ values'[m] = values[m]
                                          /\ best_moves'[m] = best_moves[m]
             /\ transitions' = transitions
             /\ expanded' = expanded
             /\ trans' = trans
             /\ id' = id /\ nodes' = nodes
             /\ players' = players]_vars

\* update() of node 1 found a best move over two destinations whose values
\* are not the initial ones, and they still have them.
C20_Witness ==
    /\ last = Call("update", 1, 1, 0, FALSE, "ok")
    /\ Len(transitions[1]) = MaxMoves
    /\ \E p \in DOMAIN best_moves[1] : ~IsNone(best_moves[1][p])
    /\ Move(1, 1).end_node # Move(1, MaxMoves).end_node
    /\ \A i \in DOMAIN transitions[1] :
          \A p \in DOMAIN values[Move(1, i).end_node] :
              values[Move(1, i).end_node][p] = Some(1)

====
